---- MODULE Spec2Model ----
(***************************************************************************)
(* The sensing part of the e-puck main loop (src/src/main.c): the          *)
(* transmission FSM and the camera FSM, stepped once each per pass of      *)
(* while (1), sharing the two image buffers img_bufs[0..1] through the     *)
(* data_is_new flag.  The UART and the camera are hardware that runs       *)
(* beside the loop: their progress is interleaved with the loop's steps.   *)
(***************************************************************************)
EXTENDS Integers, Sequences, FiniteSets, TLC

----------------------------------------------------------------------------
(* Bounds of the model *)

\* get_selector() yields a value in 0..MaxSel
MaxSel == 2
\* capacity of the UART receive buffer
MaxRx == 1

----------------------------------------------------------------------------
(* Program constants *)

IMG_H == 25
IMG_W == 64
IMG_DATA_SIZE == IMG_H * IMG_W

SEL_SENSING == 2

\* pucom.h: message types, the acknowledgement byte, the size of the
\* configuration message
PMT_CONFIG == "PMT_CONFIG"
PMT_VISUAL == "PMT_VISUAL"
PMT_ACK == 1
SIZEOF_MSG_CONFIG == 8

TX_INIT == "TX_INIT"
TX_CONFIG == "TX_CONFIG"
TX_CONFIG_ACK == "TX_CONFIG_ACK"
TX_VISUAL == "TX_VISUAL"
TX_VISUAL_ACK == "TX_VISUAL_ACK"
TX_VISUAL_SENT == "TX_VISUAL_SENT"
TRANSMISSION_STATES ==
  {TX_INIT, TX_CONFIG, TX_CONFIG_ACK, TX_VISUAL, TX_VISUAL_ACK, TX_VISUAL_SENT}

CAM_INACTIVE == "CAM_INACTIVE"
CAM_IDLE == "CAM_IDLE"
CAM_CAPTURING == "CAM_CAPTURING"
CAMERA_STATES == {CAM_INACTIVE, CAM_IDLE, CAM_CAPTURING}

SelValues == 0..MaxSel
\* The program compares a received byte with PMT_ACK only and ack starts
\* as 0: bytes are 0, PMT_ACK, and one value that stands for any other byte.
ByteValues == {0, PMT_ACK, PMT_ACK + 1}

----------------------------------------------------------------------------
VARIABLES
  pc,           \* position in the body of while (1): "sel", "tx" or "cam"
  sel,          \* the selector value read at the top of the pass
  tx_state, img_state,
  act_tx_buf, act_img_buf, ack,
  img_bufs,     \* img_bufs[b].data_is_new
  msg_hdr, msg_config,
  uart_tx_busy, \* e_uart1_sending()
  uart_tx_src,  \* the memory the UART is transmitting (was last given)
  uart_rx,      \* received bytes not yet read
  cam_busy,     \* a capture is in progress: ~e_poxxxx_is_img_ready()
  cam_buf,      \* the buffer the camera fills (was last given)
  \* history variables
  tx_act,       \* what the transmission FSM did in its last step
  cam_act,      \* what the camera FSM did in its last step
  acked,        \* a PMT_ACK byte was read since the last header was sent
  cfg_hdr_sent, \* the CONFIG header was sent since TX_INIT was left
  cfg_sent,     \* the configuration message was sent since TX_INIT was left
  last_sent,    \* what the UART was last given to send
  resend        \* sensing was disabled in TX_VISUAL_ACK for buffer 0:
                \* "pending" until the next PMT_VISUAL header, "resending"
                \* from that header for buffer 0 until its data is sent,
                \* "resent" from then until the next header, otherwise "no"

prog_vars == <<pc, sel, tx_state, img_state, act_tx_buf, act_img_buf, ack,
               img_bufs, msg_hdr, msg_config>>
uart_vars == <<uart_tx_busy, uart_tx_src, uart_rx>>
cam_vars == <<cam_busy, cam_buf>>
hist_vars == <<tx_act, cam_act, acked, cfg_hdr_sent, cfg_sent, last_sent,
               resend>>
vars == <<prog_vars, uart_vars, cam_vars, hist_vars>>

\* what e_send_uart1_char is given
MsgHdrMem == <<"msg_hdr", 0>>
MsgConfigMem == <<"msg_config", 0>>
ImgMem(b) == <<"img_bufs", b>>
NoMem == <<"none", 0>>

ConfigHdr == [type |-> PMT_CONFIG, len |-> SIZEOF_MSG_CONFIG]
VisualHdr == [type |-> PMT_VISUAL, len |-> IMG_DATA_SIZE]
ConfigMsg == [cols |-> IMG_W, rows |-> IMG_H]

\* a header or a payload of message type t, for buffer b when t is PMT_VISUAL
Sent(w, t, b) == [what |-> w, type |-> t, buf |-> b]
NothingSent == Sent("none", "none", 0)

----------------------------------------------------------------------------
(* The hardware interfaces the loop calls *)

\* sel & SEL_SENSING
SensingEnabled == (sel \div SEL_SENSING) % 2 = 1

e_uart1_sending == uart_tx_busy

e_ischar_uart1 == Len(uart_rx) > 0

e_poxxxx_is_img_ready == ~cam_busy

\* starts a transmission and returns; the UART sends from mem on its own
e_send_uart1_char(mem) ==
  /\ uart_tx_busy' = TRUE
  /\ uart_tx_src' = mem

\* reads one received byte into ack; with nothing received the byte read
\* is whatever the receive register holds
e_getchar_uart1 ==
  IF Len(uart_rx) > 0
  THEN /\ ack' = Head(uart_rx)
       /\ uart_rx' = Tail(uart_rx)
  ELSE /\ ack' \in ByteValues
       /\ uart_rx' = uart_rx

\* starts a capture into buffer b and returns
e_poxxxx_launch_capture(b) ==
  /\ cam_busy' = TRUE
  /\ cam_buf' = b

----------------------------------------------------------------------------
(* State on entry to while (1) *)

Init ==
  /\ pc = "sel"
  /\ sel \in SelValues \ {0}
  /\ tx_state = TX_INIT
  /\ img_state = CAM_INACTIVE
  /\ act_tx_buf = 0
  /\ act_img_buf = 0
  /\ ack = 0
  /\ img_bufs = [b \in 0..1 |-> [data_is_new |-> 0]]
  /\ msg_hdr \in {ConfigHdr, VisualHdr}
  /\ msg_config \in {ConfigMsg, [cols |-> 0, rows |-> 0]}
  /\ uart_tx_busy = FALSE
  /\ uart_tx_src = NoMem
  /\ uart_rx = <<>>
  /\ cam_busy = FALSE
  /\ cam_buf = 0
  /\ tx_act = "none"
  /\ cam_act = "none"
  /\ acked = FALSE
  /\ cfg_hdr_sent = FALSE
  /\ cfg_sent = FALSE
  /\ last_sent = NothingSent
  /\ resend = "no"

----------------------------------------------------------------------------
(* sel = get_selector() *)

GetSelector ==
  /\ pc = "sel"
  /\ sel' \in SelValues
  /\ pc' = "tx"
  /\ UNCHANGED <<tx_state, img_state, act_tx_buf, act_img_buf, ack, img_bufs,
                 msg_hdr, msg_config, uart_vars, cam_vars, hist_vars>>

----------------------------------------------------------------------------
(* switch (tx_state) *)

\* what every case of the switch leaves alone
TxFrame ==
  /\ pc = "tx"
  /\ pc' = "cam"
  /\ UNCHANGED <<sel, img_state, act_img_buf, cam_vars, cam_act>>

\* a case that falls through to break with no branch taken
TxNothing ==
  /\ tx_act' = "none"
  /\ UNCHANGED <<last_sent, resend>>
  /\ UNCHANGED <<tx_state, act_tx_buf, ack, img_bufs, msg_hdr, msg_config,
                 uart_vars, acked, cfg_hdr_sent, cfg_sent>>

\* TxDisable releasing the buffer whose transfer it gives up
TxDisable_FreesBuffer ==
  /\ tx_state' = TX_INIT
  /\ tx_act' = "none"
  /\ resend' = IF tx_state = TX_VISUAL_ACK /\ act_tx_buf = 0 THEN "pending"
                ELSE IF resend = "resent" THEN "no"
                ELSE resend
  /\ UNCHANGED last_sent
  /\ img_bufs' = IF tx_state = TX_VISUAL_ACK
                  THEN [img_bufs EXCEPT ![act_tx_buf].data_is_new = 0]
                  ELSE img_bufs
  /\ UNCHANGED <<act_tx_buf, ack, msg_hdr, msg_config,
                 uart_vars, acked, cfg_hdr_sent, cfg_sent>>

\* if ((sel & SEL_SENSING) == 0) tx_state = TX_INIT;
TxDisable ==
  /\ tx_state' = TX_INIT
  /\ tx_act' = "none"
  /\ resend' = IF tx_state = TX_VISUAL_ACK /\ act_tx_buf = 0 THEN "pending"
                ELSE IF resend = "resent" THEN "no"
                ELSE resend
  /\ UNCHANGED last_sent
  /\ UNCHANGED <<act_tx_buf, ack, img_bufs, msg_hdr, msg_config,
                 uart_vars, acked, cfg_hdr_sent, cfg_sent>>

\* TxInit emptying the receive buffer of the UART, one byte per pass
TxInit_Flush ==
  /\ tx_state = TX_INIT
  /\ TxFrame
  /\ tx_state' = IF SensingEnabled THEN TX_CONFIG ELSE TX_INIT
  /\ tx_act' = "none"
  /\ UNCHANGED <<last_sent, resend>>
  /\ cfg_hdr_sent' = FALSE
  /\ cfg_sent' = FALSE
  /\ IF e_ischar_uart1 THEN e_getchar_uart1 ELSE UNCHANGED <<ack, uart_rx>>
  /\ UNCHANGED <<act_tx_buf, img_bufs, msg_hdr, msg_config,
                 uart_tx_busy, uart_tx_src, acked>>

TxInit ==
  /\ tx_state = TX_INIT
  /\ TxFrame
  /\ tx_state' = IF SensingEnabled THEN TX_CONFIG ELSE TX_INIT
  /\ tx_act' = "none"
  /\ UNCHANGED <<last_sent, resend>>
  /\ cfg_hdr_sent' = FALSE
  /\ cfg_sent' = FALSE
  /\ UNCHANGED <<act_tx_buf, ack, img_bufs, msg_hdr, msg_config,
                 uart_vars, acked>>


\* TxConfig without the test of e_uart1_sending()
TxConfig_NoSendingTest ==
  /\ tx_state = TX_CONFIG
  /\ TxFrame
  /\ IF ~SensingEnabled
     THEN TxDisable
     ELSE /\ msg_hdr' = ConfigHdr
          /\ msg_config' = ConfigMsg
          /\ e_send_uart1_char(MsgHdrMem)
          /\ tx_state' = TX_CONFIG_ACK
          /\ tx_act' = "send"
          /\ last_sent' = Sent("header", PMT_CONFIG, 0)
          /\ UNCHANGED resend
          /\ acked' = FALSE
          /\ cfg_hdr_sent' = TRUE
          /\ UNCHANGED <<act_tx_buf, ack, img_bufs, uart_rx, cfg_sent>>

TxConfig ==
  /\ tx_state = TX_CONFIG
  /\ TxFrame
  /\ IF ~SensingEnabled
     THEN TxDisable
     ELSE IF ~e_uart1_sending
     THEN /\ msg_hdr' = ConfigHdr
          /\ msg_config' = ConfigMsg
          /\ e_send_uart1_char(MsgHdrMem)
          /\ tx_state' = TX_CONFIG_ACK
          /\ tx_act' = "send"
          /\ last_sent' = Sent("header", PMT_CONFIG, 0)
          /\ UNCHANGED resend
          /\ acked' = FALSE
          /\ cfg_hdr_sent' = TRUE
          /\ UNCHANGED <<act_tx_buf, ack, img_bufs, uart_rx, cfg_sent>>
     ELSE TxNothing

\* TxConfigAck reading whenever a byte is there, without the test of ack
TxConfigAck_NoAckTest ==
  /\ tx_state = TX_CONFIG_ACK
  /\ TxFrame
  /\ IF ~SensingEnabled
     THEN TxDisable
     ELSE IF e_ischar_uart1
     THEN /\ e_getchar_uart1
          /\ tx_act' = "read"
          /\ UNCHANGED <<last_sent, resend>>
          /\ acked' = (acked \/ (e_ischar_uart1 /\ ack' = PMT_ACK))
          /\ UNCHANGED <<tx_state, act_tx_buf, img_bufs, msg_hdr, msg_config,
                         uart_tx_busy, uart_tx_src, cfg_hdr_sent, cfg_sent>>
     ELSE IF ~e_uart1_sending /\ ack = PMT_ACK
     THEN /\ e_send_uart1_char(MsgConfigMem)
          /\ tx_state' = TX_VISUAL
          /\ tx_act' = "send"
          /\ last_sent' = Sent("payload", PMT_CONFIG, 0)
          /\ UNCHANGED resend
          /\ cfg_sent' = TRUE
          /\ UNCHANGED <<act_tx_buf, ack, img_bufs, msg_hdr, msg_config,
                         uart_rx, acked, cfg_hdr_sent>>
     ELSE TxNothing

TxConfigAck ==
  /\ tx_state = TX_CONFIG_ACK
  /\ TxFrame
  /\ IF ~SensingEnabled
     THEN TxDisable
     ELSE IF e_ischar_uart1 /\ ack # PMT_ACK
     THEN /\ e_getchar_uart1
          /\ tx_act' = "read"
          /\ UNCHANGED <<last_sent, resend>>
          /\ acked' = (acked \/ (e_ischar_uart1 /\ ack' = PMT_ACK))
          /\ UNCHANGED <<tx_state, act_tx_buf, img_bufs, msg_hdr, msg_config,
                         uart_tx_busy, uart_tx_src, cfg_hdr_sent, cfg_sent>>
     ELSE IF ~e_uart1_sending /\ ack = PMT_ACK
     THEN /\ e_send_uart1_char(MsgConfigMem)
          /\ tx_state' = TX_VISUAL
          /\ tx_act' = "send"
          /\ last_sent' = Sent("payload", PMT_CONFIG, 0)
          /\ UNCHANGED resend
          /\ cfg_sent' = TRUE
          /\ UNCHANGED <<act_tx_buf, ack, img_bufs, msg_hdr, msg_config,
                         uart_rx, acked, cfg_hdr_sent>>
     ELSE TxNothing

\* TxVisualHeader with act_tx_buf = 0 pasted into both branches
TxVisualHeader_Pasted(b) ==
  /\ msg_hdr' = VisualHdr
  /\ e_send_uart1_char(MsgHdrMem)
  /\ act_tx_buf' = 0
  /\ tx_state' = TX_VISUAL_ACK
  /\ tx_act' = "send"
  /\ last_sent' = Sent("header", PMT_VISUAL, b)
  /\ resend' = IF resend = "pending" /\ b = 0 THEN "resending" ELSE "no"
  /\ acked' = FALSE
  /\ UNCHANGED <<ack, img_bufs, msg_config, uart_rx, cfg_hdr_sent, cfg_sent>>

\* the two else-if branches of case TX_VISUAL, for buffer b
TxVisualHeader(b) ==
  /\ msg_hdr' = VisualHdr
  /\ e_send_uart1_char(MsgHdrMem)
  /\ act_tx_buf' = b
  /\ tx_state' = TX_VISUAL_ACK
  /\ tx_act' = "send"
  /\ last_sent' = Sent("header", PMT_VISUAL, b)
  /\ resend' = IF resend = "pending" /\ b = 0 THEN "resending" ELSE "no"
  /\ acked' = FALSE
  /\ UNCHANGED <<ack, img_bufs, msg_config, uart_rx, cfg_hdr_sent, cfg_sent>>


\* TxVisual with the test of img_bufs[0] pasted into the second branch
TxVisual_Pasted ==
  /\ tx_state = TX_VISUAL
  /\ TxFrame
  /\ IF ~SensingEnabled
     THEN TxDisable
     ELSE IF img_bufs[0].data_is_new = 1 /\ ~e_uart1_sending
     THEN TxVisualHeader(0)
     ELSE IF img_bufs[0].data_is_new = 1 /\ ~e_uart1_sending
     THEN TxVisualHeader(1)
     ELSE TxNothing

\* TxVisual with the two tests in the other order: buffer 1 before buffer 0
TxVisual_OneFirst ==
  /\ tx_state = TX_VISUAL
  /\ TxFrame
  /\ IF ~SensingEnabled
     THEN TxDisable
     ELSE IF img_bufs[1].data_is_new = 1 /\ ~e_uart1_sending
     THEN TxVisualHeader(1)
     ELSE IF img_bufs[0].data_is_new = 1 /\ ~e_uart1_sending
     THEN TxVisualHeader(0)
     ELSE TxNothing

TxVisual ==
  /\ tx_state = TX_VISUAL
  /\ TxFrame
  /\ IF ~SensingEnabled
     THEN TxDisable
     ELSE IF img_bufs[0].data_is_new = 1 /\ ~e_uart1_sending
     THEN TxVisualHeader(0)
     ELSE IF img_bufs[1].data_is_new = 1 /\ ~e_uart1_sending
     THEN TxVisualHeader(1)
     ELSE TxNothing

\* TxVisualAck sending the data of the buffer of the camera FSM
TxVisualAck_CamBuf ==
  /\ tx_state = TX_VISUAL_ACK
  /\ TxFrame
  /\ IF ~SensingEnabled
     THEN TxDisable
     ELSE IF e_ischar_uart1 /\ ack # PMT_ACK
     THEN /\ e_getchar_uart1
          /\ tx_act' = "read"
          /\ UNCHANGED <<last_sent, resend>>
          /\ acked' = (acked \/ (e_ischar_uart1 /\ ack' = PMT_ACK))
          /\ UNCHANGED <<tx_state, act_tx_buf, img_bufs, msg_hdr, msg_config,
                         uart_tx_busy, uart_tx_src, cfg_hdr_sent, cfg_sent>>
     ELSE IF ~e_uart1_sending /\ ack = PMT_ACK
     THEN /\ e_send_uart1_char(ImgMem(act_img_buf))
          /\ ack' = 0
          /\ tx_state' = TX_VISUAL_SENT
          /\ tx_act' = "send"
          /\ last_sent' = Sent("payload", PMT_VISUAL, act_img_buf)
          /\ resend' = IF resend = "resending" THEN "resent" ELSE "no"
          /\ UNCHANGED <<act_tx_buf, img_bufs, msg_hdr, msg_config,
                         uart_rx, acked, cfg_hdr_sent, cfg_sent>>
     ELSE TxNothing

TxVisualAck ==
  /\ tx_state = TX_VISUAL_ACK
  /\ TxFrame
  /\ IF ~SensingEnabled
     THEN TxDisable
     ELSE IF e_ischar_uart1 /\ ack # PMT_ACK
     THEN /\ e_getchar_uart1
          /\ tx_act' = "read"
          /\ UNCHANGED <<last_sent, resend>>
          /\ acked' = (acked \/ (e_ischar_uart1 /\ ack' = PMT_ACK))
          /\ UNCHANGED <<tx_state, act_tx_buf, img_bufs, msg_hdr, msg_config,
                         uart_tx_busy, uart_tx_src, cfg_hdr_sent, cfg_sent>>
     ELSE IF ~e_uart1_sending /\ ack = PMT_ACK
     THEN /\ e_send_uart1_char(ImgMem(act_tx_buf))
          /\ ack' = 0
          /\ tx_state' = TX_VISUAL_SENT
          /\ tx_act' = "send"
          /\ last_sent' = Sent("payload", PMT_VISUAL, act_tx_buf)
          /\ resend' = IF resend = "resending" THEN "resent" ELSE "no"
          /\ UNCHANGED <<act_tx_buf, img_bufs, msg_hdr, msg_config,
                         uart_rx, acked, cfg_hdr_sent, cfg_sent>>
     ELSE TxNothing


\* TxVisualSent without the test of e_uart1_sending()
TxVisualSent_NoSendingTest ==
  /\ tx_state = TX_VISUAL_SENT
  /\ TxFrame
  /\ img_bufs' = [img_bufs EXCEPT ![act_tx_buf].data_is_new = 0]
  /\ tx_state' = TX_VISUAL
  /\ tx_act' = "free"
  /\ UNCHANGED <<last_sent, resend>>
  /\ UNCHANGED <<act_tx_buf, ack, msg_hdr, msg_config,
                 uart_vars, acked, cfg_hdr_sent, cfg_sent>>

\* TxVisualSent going back to TX_CONFIG instead of TX_VISUAL
TxVisualSent_ToConfig ==
  /\ tx_state = TX_VISUAL_SENT
  /\ TxFrame
  /\ IF ~e_uart1_sending
     THEN /\ img_bufs' = [img_bufs EXCEPT ![act_tx_buf].data_is_new = 0]
          /\ tx_state' = TX_CONFIG
          /\ tx_act' = "free"
          /\ UNCHANGED <<last_sent, resend>>
          /\ UNCHANGED <<act_tx_buf, ack, msg_hdr, msg_config,
                         uart_vars, acked, cfg_hdr_sent, cfg_sent>>
     ELSE TxNothing

TxVisualSent ==
  /\ tx_state = TX_VISUAL_SENT
  /\ TxFrame
  /\ IF ~e_uart1_sending
     THEN /\ img_bufs' = [img_bufs EXCEPT ![act_tx_buf].data_is_new = 0]
          /\ tx_state' = TX_VISUAL
          /\ tx_act' = "free"
          /\ UNCHANGED <<last_sent, resend>>
          /\ UNCHANGED <<act_tx_buf, ack, msg_hdr, msg_config,
                         uart_vars, acked, cfg_hdr_sent, cfg_sent>>
     ELSE TxNothing

----------------------------------------------------------------------------
(* switch (img_state) *)

CamFrame ==
  /\ pc = "cam"
  /\ pc' = "sel"
  /\ UNCHANGED <<sel, tx_state, act_tx_buf, ack, msg_hdr, msg_config,
                 uart_vars, tx_act, acked, cfg_hdr_sent, cfg_sent,
                 last_sent, resend>>

CamNothing ==
  /\ cam_act' = "none"
  /\ UNCHANGED <<img_state, act_img_buf, img_bufs, cam_vars>>

\* if ((sel & SEL_SENSING) == 0) img_state = CAM_INACTIVE;
CamDisable ==
  /\ img_state' = CAM_INACTIVE
  /\ cam_act' = IF img_state = CAM_CAPTURING THEN "abandon" ELSE "none"
  /\ UNCHANGED <<act_img_buf, img_bufs, cam_vars>>

CamInactive ==
  /\ img_state = CAM_INACTIVE
  /\ CamFrame
  /\ img_state' = IF SensingEnabled THEN CAM_IDLE ELSE CAM_INACTIVE
  /\ cam_act' = IF SensingEnabled THEN "enable" ELSE "none"
  /\ UNCHANGED <<act_img_buf, img_bufs, cam_vars>>

\* CamStartCapture with act_img_buf = 0 pasted into both branches
CamStartCapture_Pasted(b) ==
  /\ e_poxxxx_launch_capture(b)
  /\ act_img_buf' = 0
  /\ img_state' = CAM_CAPTURING
  /\ cam_act' = "launch"
  /\ UNCHANGED img_bufs

\* CamStartCapture marking the buffer new when the capture is launched
CamStartCapture_Early(b) ==
  /\ e_poxxxx_launch_capture(b)
  /\ act_img_buf' = b
  /\ img_state' = CAM_CAPTURING
  /\ cam_act' = "launch"
  /\ img_bufs' = [img_bufs EXCEPT ![b].data_is_new = 1]

\* the two else-if branches of case CAM_IDLE, for buffer b
CamStartCapture(b) ==
  /\ e_poxxxx_launch_capture(b)
  /\ act_img_buf' = b
  /\ img_state' = CAM_CAPTURING
  /\ cam_act' = "launch"
  /\ UNCHANGED img_bufs


\* CamIdle without the test of img_bufs[1].data_is_new
CamIdle_NoFlagTest ==
  /\ img_state = CAM_IDLE
  /\ CamFrame
  /\ IF ~SensingEnabled
     THEN CamDisable
     ELSE IF img_bufs[0].data_is_new = 0
     THEN CamStartCapture(0)
     ELSE CamStartCapture(1)

CamIdle ==
  /\ img_state = CAM_IDLE
  /\ CamFrame
  /\ IF ~SensingEnabled
     THEN CamDisable
     ELSE IF img_bufs[0].data_is_new = 0
     THEN CamStartCapture(0)
     ELSE IF img_bufs[1].data_is_new = 0
     THEN CamStartCapture(1)
     ELSE CamNothing

\* CamCapturing with e_poxxxx_is_img_ready() tested before the selector
CamCapturing_ReadyFirst ==
  /\ img_state = CAM_CAPTURING
  /\ CamFrame
  /\ IF e_poxxxx_is_img_ready
     THEN /\ img_bufs' = [img_bufs EXCEPT ![act_img_buf].data_is_new = 1]
          /\ img_state' = CAM_IDLE
          /\ cam_act' = "done"
          /\ UNCHANGED <<act_img_buf, cam_vars>>
     ELSE IF ~SensingEnabled
     THEN CamDisable
     ELSE CamNothing

\* CamCapturing without the test of e_poxxxx_is_img_ready()
CamCapturing_NoReadyTest ==
  /\ img_state = CAM_CAPTURING
  /\ CamFrame
  /\ IF ~SensingEnabled
     THEN CamDisable
     ELSE /\ img_bufs' = [img_bufs EXCEPT ![act_img_buf].data_is_new = 1]
          /\ img_state' = CAM_IDLE
          /\ cam_act' = "done"
          /\ UNCHANGED <<act_img_buf, cam_vars>>

CamCapturing ==
  /\ img_state = CAM_CAPTURING
  /\ CamFrame
  /\ IF ~SensingEnabled
     THEN CamDisable
     ELSE IF e_poxxxx_is_img_ready
     THEN /\ img_bufs' = [img_bufs EXCEPT ![act_img_buf].data_is_new = 1]
          /\ img_state' = CAM_IDLE
          /\ cam_act' = "done"
          /\ UNCHANGED <<act_img_buf, cam_vars>>
     ELSE CamNothing

----------------------------------------------------------------------------
(* The hardware beside the loop *)

\* the UART has sent the last byte it was given
UartTxDone ==
  /\ uart_tx_busy
  /\ uart_tx_busy' = FALSE
  /\ UNCHANGED <<prog_vars, uart_tx_src, uart_rx, cam_vars, hist_vars>>

\* a byte from the peer arrives
UartRxByte(b) ==
  /\ Len(uart_rx) < MaxRx
  /\ uart_rx' = Append(uart_rx, b)
  /\ UNCHANGED <<prog_vars, uart_tx_busy, uart_tx_src, cam_vars, hist_vars>>

PeerSendsAck == UartRxByte(PMT_ACK)

PeerSendsOther == \E b \in ByteValues \ {PMT_ACK} : UartRxByte(b)

\* the camera has stored the last pixel of the image
CamImgDone ==
  /\ cam_busy
  /\ cam_busy' = FALSE
  /\ UNCHANGED <<prog_vars, uart_vars, cam_buf, hist_vars>>

----------------------------------------------------------------------------
Next ==
  \/ GetSelector
  \/ TxInit
  \/ TxConfig
  \/ TxConfigAck
  \/ TxVisual
  \/ TxVisualAck
  \/ TxVisualSent
  \/ CamInactive
  \/ CamIdle
  \/ CamCapturing
  \/ UartTxDone
  \/ PeerSendsAck
  \/ PeerSendsOther
  \/ CamImgDone

Spec == Init /\ [][Next]_vars

\* The loop never stops, the UART finishes every transmission, the camera
\* finishes every capture, and the peer keeps sending acknowledgements.
Loop ==
  \/ GetSelector
  \/ TxInit
  \/ TxConfig
  \/ TxConfigAck
  \/ TxVisual
  \/ TxVisualAck
  \/ TxVisualSent
  \/ CamInactive
  \/ CamIdle
  \/ CamCapturing

LiveNext ==
  \/ Loop
  \/ UartTxDone
  \/ PeerSendsAck
  \/ PeerSendsOther
  \/ CamImgDone

LiveSpec ==
  /\ Init
  /\ [][LiveNext]_vars
  /\ WF_vars(Loop)
  /\ WF_vars(UartTxDone)
  /\ WF_vars(CamImgDone)
  /\ SF_vars(PeerSendsAck)

----------------------------------------------------------------------------
(* Properties *)

IsNew(b) == img_bufs[b].data_is_new = 1

\* this step is the transmission FSM's and it gives mem to the UART
TxSends(mem) ==
  /\ pc = "tx"
  /\ pc' = "cam"
  /\ tx_act' = "send"
  /\ uart_tx_src' = mem

TxSendsHeader(type) == TxSends(MsgHdrMem) /\ msg_hdr'.type = type

TxSendsImage == \E b \in 0..1 : TxSends(ImgMem(b))

\* C1: the camera never fills a buffer whose data_is_new is 1, the UART
\* never transmits the data of a buffer whose data_is_new is 0, and so the
\* camera and the UART never work on the same buffer at the same time.
C1_HandOff ==
  /\ \A b \in 0..1 :
       /\ (cam_busy /\ cam_buf = b) => ~IsNew(b)
       /\ (uart_tx_busy /\ uart_tx_src = ImgMem(b)) => IsNew(b)
  /\ ~(cam_busy /\ uart_tx_busy /\ uart_tx_src = ImgMem(cam_buf))

\* a capture into buffer 1 runs while the data of buffer 0 is transmitted
C1_Witness ==
  /\ cam_busy
  /\ cam_buf = 1
  /\ uart_tx_busy
  /\ uart_tx_src = ImgMem(0)

\* C2: in CAM_CAPTURING the buffer act_img_buf is not new; in TX_VISUAL_ACK
\* and TX_VISUAL_SENT the buffer act_tx_buf is new.
C2_ActiveIndex ==
  /\ img_state = CAM_CAPTURING => ~IsNew(act_img_buf)
  /\ tx_state \in {TX_VISUAL_ACK, TX_VISUAL_SENT} => IsNew(act_tx_buf)

C2_Witness ==
  /\ img_state = CAM_CAPTURING
  /\ act_img_buf = 1
  /\ tx_state = TX_VISUAL_SENT
  /\ act_tx_buf = 0

\* C3: under LiveSpec, every buffer that is new eventually is not new.
C3_Drain ==
  \A b \in 0..1 : IsNew(b) ~> ~IsNew(b)

\* C3 as amended: under LiveSpec, if sensing stays enabled from some pass
\* on, every buffer that is new eventually is not new.
C3_DrainAmended ==
  <>[]SensingEnabled => \A b \in 0..1 : IsNew(b) ~> ~IsNew(b)

\* buffer 0 was filled, its data was sent and the transmission FSM has
\* just set its data_is_new back to 0
C3_Witness ==
  /\ pc = "cam"
  /\ SensingEnabled
  /\ tx_act = "free"
  /\ act_tx_buf = 0
  /\ ~IsNew(0)
  /\ uart_tx_src = ImgMem(0)

\* C4: the data of a buffer is given to the UART only after a PMT_ACK byte
\* was read since the PMT_VISUAL header was sent.
C4_AckBeforeImage ==
  [][TxSendsImage => acked]_vars

\* C5: the configuration message is given to the UART, and TX_VISUAL is
\* entered from TX_CONFIG_ACK, only after the PMT_CONFIG header of this
\* session was sent and a PMT_ACK byte was read since, with the UART idle;
\* the message holds cols = IMG_W and rows = IMG_H.
C5_AckBeforeConfig ==
  [][(TxSends(MsgConfigMem) \/ (tx_state = TX_CONFIG_ACK /\ tx_state' = TX_VISUAL))
       => /\ cfg_hdr_sent
          /\ acked
          /\ ~uart_tx_busy
          /\ msg_config' = ConfigMsg]_vars

\* C6: between two visits of TX_INIT the PMT_CONFIG header and the
\* configuration message are each sent at most once, and no PMT_VISUAL
\* header and no image data is sent before the configuration message.
C6_ConfigOnce ==
  [][/\ TxSendsHeader(PMT_CONFIG) => ~cfg_hdr_sent
     /\ TxSends(MsgConfigMem) => ~cfg_sent
     /\ (TxSendsHeader(PMT_VISUAL) \/ TxSendsImage) => cfg_sent]_vars

\* the data of buffer 1 is being sent in a session whose configuration
\* message was sent
C6_Witness ==
  /\ pc = "cam"
  /\ tx_act = "send"
  /\ uart_tx_src = ImgMem(1)
  /\ cfg_hdr_sent
  /\ cfg_sent

\* C7: at the end of a pass in which sel had the sensing bit clear, the
\* transmission FSM is in TX_INIT and the camera FSM is in CAM_INACTIVE.
C7_DisableResets ==
  (pc = "sel" /\ ~SensingEnabled)
    => (tx_state = TX_INIT /\ img_state = CAM_INACTIVE)

\* C8: in a pass in which sel has the sensing bit clear, neither FSM
\* changes a data_is_new flag.
C8_DisableKeepsFlags ==
  [][(pc # "sel" /\ ~SensingEnabled) => UNCHANGED img_bufs]_vars

\* C9: the transmission FSM gives the UART something to send only when
\* e_uart1_sending() is false, and reads a byte only when e_ischar_uart1()
\* is true.
C9_ChannelContract ==
  [][(pc = "tx" /\ pc' = "cam")
       => /\ tx_act' = "send" => ~uart_tx_busy
          /\ tx_act' = "read" => Len(uart_rx) > 0]_vars

\* image data was given to the UART after a PMT_ACK byte was read
C9_Witness ==
  /\ pc = "cam"
  /\ tx_act = "send"
  /\ uart_tx_busy
  /\ uart_tx_src = ImgMem(0)
  /\ acked

\* C10: while both buffers are new and the camera FSM is in CAM_IDLE, a
\* step of the camera FSM with sensing enabled starts no capture and stays
\* in CAM_IDLE; the FSM leaves CAM_IDLE only when sensing is disabled, and
\* a flag changes only when the transmission FSM frees a buffer.
C10_Backpressure ==
  [][(img_state = CAM_IDLE /\ IsNew(0) /\ IsNew(1))
       => /\ (pc = "cam" /\ pc' = "sel" /\ SensingEnabled)
               => /\ img_state' = CAM_IDLE
                  /\ cam_act' = "none"
                  /\ UNCHANGED <<cam_vars, act_img_buf, img_bufs>>
          /\ img_state' # CAM_IDLE
               => (pc = "cam" /\ ~SensingEnabled /\ img_state' = CAM_INACTIVE)
          /\ img_bufs' # img_bufs
               => (pc = "tx" /\ tx_act' = "free" /\ tx_state = TX_VISUAL_SENT)]_vars

\* buffer 0 and then buffer 1 were filled, neither was freed, and the
\* camera FSM has just passed through CAM_IDLE without starting a capture
C10_Witness ==
  /\ pc = "sel"
  /\ SensingEnabled
  /\ img_state = CAM_IDLE
  /\ cam_act = "none"
  /\ act_img_buf = 1
  /\ IsNew(0)
  /\ IsNew(1)

----------------------------------------------------------------------------
\* a step of the transmission state machine taken in state st
TxStepIn(st) == pc = "tx" /\ pc' = "cam" /\ tx_state = st

\* the step sends nothing, reads nothing and keeps the state
TxIdles ==
  /\ tx_state' = tx_state
  /\ tx_act' = "none"
  /\ UNCHANGED <<uart_vars, act_tx_buf, ack, img_bufs>>

\* the outcome of a scan in TX_VISUAL: the first new buffer in the order
\* 0, 1 gets its header sent while the UART is idle, otherwise nothing happens
ScanOutcome ==
  IF ~uart_tx_busy /\ IsNew(0)
  THEN TxSendsHeader(PMT_VISUAL) /\ act_tx_buf' = 0 /\ tx_state' = TX_VISUAL_ACK
  ELSE IF ~uart_tx_busy /\ IsNew(1)
  THEN TxSendsHeader(PMT_VISUAL) /\ act_tx_buf' = 1 /\ tx_state' = TX_VISUAL_ACK
  ELSE TxIdles

\* C12 as stated: every step in TX_VISUAL has the outcome of the scan:
\* buffer 0 is the send target if it is new, buffer 1 only if buffer 0 is
\* not new and buffer 1 is, and if no buffer is new or the UART is still
\* sending, nothing is sent and the state stays TX_VISUAL.
C12_FixedPriority == [][TxStepIn(TX_VISUAL) => ScanOutcome]_vars

\* C12 amended: every step in TX_VISUAL with sensing enabled has the outcome
\* of the scan, and a step with sensing disabled sends nothing and goes to
\* TX_INIT.
C12_FixedPriorityEnabled ==
  [][TxStepIn(TX_VISUAL) =>
       IF SensingEnabled
       THEN ScanOutcome
       ELSE /\ tx_state' = TX_INIT
            /\ tx_act' = "none"
            /\ UNCHANGED <<uart_vars, act_tx_buf, img_bufs>>]_vars

\* the header of buffer 0 was just sent while buffer 1 is new too
C12_Witness ==
  /\ pc = "cam" /\ tx_act = "send" /\ tx_state = TX_VISUAL_ACK
  /\ act_tx_buf = 0 /\ IsNew(0) /\ IsNew(1)

----------------------------------------------------------------------------
\* C14: every step that enters TX_CONFIG_ACK or TX_VISUAL_ACK leaves the
\* ack register empty (0).
C14_AckEmptyOnEntry ==
  [][(tx_state' # tx_state /\ tx_state' \in {TX_CONFIG_ACK, TX_VISUAL_ACK})
       => ack' = 0]_vars

----------------------------------------------------------------------------
\* a step of the camera state machine taken in state st
CamStepIn(st) == pc = "cam" /\ pc' = "sel" /\ img_state = st

\* C16: data_is_new of a buffer goes from 0 to 1 only in a camera step in
\* CAM_CAPTURING with sensing enabled and the image ready, and only for
\* act_img_buf; it goes from 1 to 0 only in a transmission step in
\* TX_VISUAL_SENT with the UART no longer sending, and only for act_tx_buf,
\* the step ending in TX_VISUAL; the other buffer's flag is unchanged.
C16_FlagWriters ==
  [][\A b \in 0..1 :
       /\ (~IsNew(b) /\ IsNew(b)') =>
             /\ CamStepIn(CAM_CAPTURING)
             /\ SensingEnabled
             /\ e_poxxxx_is_img_ready
             /\ act_img_buf = b
             /\ img_bufs'[1 - b] = img_bufs[1 - b]
       /\ (IsNew(b) /\ ~IsNew(b)') =>
             /\ TxStepIn(TX_VISUAL_SENT)
             /\ ~e_uart1_sending
             /\ act_tx_buf = b
             /\ tx_state' = TX_VISUAL
             /\ img_bufs'[1 - b] = img_bufs[1 - b]]_vars

\* in one pass of the loop the sent buffer was freed and the captured buffer
\* was marked new
C16_Witness ==
  /\ pc = "sel" /\ tx_act = "free" /\ cam_act = "done"
  /\ ~IsNew(act_tx_buf) /\ IsNew(act_img_buf)

----------------------------------------------------------------------------
\* the camera step launches a capture into buffer b and records it
CamLaunches(b) ==
  /\ img_state' = CAM_CAPTURING
  /\ act_img_buf' = b
  /\ cam_busy' /\ cam_buf' = b
  /\ cam_act' = "launch"
  /\ img_bufs' = img_bufs

\* C17: a camera step in CAM_IDLE with sensing enabled launches a capture
\* into buffer 0 if it is not new, otherwise into buffer 1 if that is not
\* new, records the buffer in act_img_buf and goes to CAM_CAPTURING; a
\* camera step in CAM_CAPTURING with sensing disabled goes to CAM_INACTIVE
\* and sets no flag, whether or not the image is ready.
C17_ScanAndAbandon ==
  [][/\ (CamStepIn(CAM_IDLE) /\ SensingEnabled) =>
          IF ~IsNew(0) THEN CamLaunches(0)
          ELSE IF ~IsNew(1) THEN CamLaunches(1)
          ELSE img_state' = CAM_IDLE /\ UNCHANGED cam_vars
     /\ (CamStepIn(CAM_CAPTURING) /\ ~SensingEnabled) =>
          /\ img_state' = CAM_INACTIVE
          /\ img_bufs' = img_bufs
          /\ act_img_buf' = act_img_buf]_vars

\* a capture was abandoned in a step in which the image was ready
C17_Witness ==
  /\ pc = "sel" /\ cam_act = "abandon" /\ img_state = CAM_INACTIVE
  /\ e_poxxxx_is_img_ready /\ cam_buf = act_img_buf
  /\ ~IsNew(act_img_buf)

----------------------------------------------------------------------------
\* C18: while the camera FSM is in CAM_CAPTURING and the transmission FSM
\* is in TX_VISUAL_ACK or TX_VISUAL_SENT, act_img_buf differs from
\* act_tx_buf.
C18_DistinctSlots ==
  (img_state = CAM_CAPTURING /\ tx_state \in {TX_VISUAL_ACK, TX_VISUAL_SENT})
    => act_img_buf # act_tx_buf

\* buffer 1 is being captured while buffer 0 waits for its acknowledgement
C18_Witness ==
  /\ img_state = CAM_CAPTURING /\ tx_state = TX_VISUAL_ACK
  /\ act_tx_buf = 0 /\ act_img_buf = 1 /\ cam_busy /\ cam_buf = 1

----------------------------------------------------------------------------
AckWaitStates == {TX_CONFIG_ACK, TX_VISUAL_ACK}

\* the step takes a byte out of the receive buffer of the UART
ConsumesByte == Len(uart_rx') < Len(uart_rx)

\* the step hands the UART something to send
StartsSend == uart_tx_busy' /\ (~uart_tx_busy \/ uart_tx_src' # uart_tx_src)

\* C20: a step consumes a byte only if it is a transmission step in
\* TX_CONFIG_ACK or TX_VISUAL_ACK, it then consumes exactly one byte and
\* starts no send; a transmission step in any other state leaves the
\* received bytes unread.
C20_OneChannelOp ==
  [][/\ ConsumesByte =>
          /\ pc = "tx" /\ tx_state \in AckWaitStates
          /\ uart_rx' = Tail(uart_rx)
          /\ ~StartsSend
          /\ UNCHANGED <<uart_tx_busy, uart_tx_src>>
     /\ (pc = "tx" /\ pc' = "cam" /\ tx_state \notin AckWaitStates)
          => uart_rx' = uart_rx]_vars

\* a byte that was in the receive buffer during the step in TX_VISUAL_SENT
\* is still unread after it
C20_Witness ==
  /\ pc = "cam" /\ tx_act = "free" /\ tx_state = TX_VISUAL
  /\ e_ischar_uart1

----------------------------------------------------------------------------
\* a capture into buffer 0 is under way, in the camera or in the camera FSM
CapturingZero ==
  \/ cam_busy /\ cam_buf = 0
  \/ img_state = CAM_CAPTURING /\ act_img_buf = 0

\* C11: a transmission step that finds sensing disabled in TX_VISUAL_ACK
\* with act_tx_buf = 0 goes to TX_INIT and leaves buffer 0 new; from then
\* until the data of buffer 0 is sent again, buffer 0 stays new and no
\* capture into it is started or under way; the first PMT_VISUAL header
\* sent after the disable follows a sent configuration and is for buffer
\* 0, and the image data sent after that header is that of buffer 0.
C11_StaleResend ==
  [][/\ (TxStepIn(TX_VISUAL_ACK) /\ ~SensingEnabled /\ act_tx_buf = 0) =>
          /\ tx_state' = TX_INIT
          /\ IsNew(0) /\ IsNew(0)'
          /\ resend' = "pending"
     /\ resend \in {"pending", "resending"} =>
          /\ IsNew(0) /\ IsNew(0)'
          /\ ~CapturingZero /\ ~CapturingZero'
     /\ (resend = "pending" /\ TxSendsHeader(PMT_VISUAL)) =>
          /\ cfg_sent
          /\ act_tx_buf' = 0
          /\ resend' = "resending"
     /\ (resend = "resending" /\ TxSendsImage) =>
          uart_tx_src' = ImgMem(0)]_vars

\* after a disable in TX_VISUAL_ACK for buffer 0 and a new configuration
\* handshake, the data of buffer 0 was sent again without a new capture
C11_Witness ==
  /\ pc = "cam" /\ resend = "resent" /\ tx_act = "send"
  /\ tx_state = TX_VISUAL_SENT /\ act_tx_buf = 0
  /\ last_sent = Sent("payload", PMT_VISUAL, 0)

----------------------------------------------------------------------------
\* C19: whenever the configuration message is handed to the UART, the
\* send before it was the PMT_CONFIG header, and whenever the data of
\* buffer b is handed to the UART, the send before it was the PMT_VISUAL
\* header sent for buffer b; only a header may follow a header or open
\* the sequence.
C19_Framing ==
  [][/\ TxSends(MsgConfigMem) =>
          last_sent = Sent("header", PMT_CONFIG, 0)
     /\ \A b \in 0..1 :
          TxSends(ImgMem(b)) => last_sent = Sent("header", PMT_VISUAL, b)
     /\ (TxSends(uart_tx_src') /\ last_sent.what # "header")
          => uart_tx_src' = MsgHdrMem]_vars

\* the data of buffer 1 was sent, after its own header
C19_Witness ==
  /\ pc = "cam" /\ tx_act = "send" /\ tx_state = TX_VISUAL_SENT
  /\ last_sent = Sent("payload", PMT_VISUAL, 1)
  /\ uart_tx_src = ImgMem(1)

----------------------------------------------------------------------------
\* C15 as stated: a byte is consumed only when one is unread and the ack
\* register is empty (0).
C15_ConsumeRule == [][ConsumesByte => (e_ischar_uart1 /\ ack = 0)]_vars

\* C15 amended: a byte is consumed only in a transmission step in
\* TX_CONFIG_ACK or TX_VISUAL_ACK with sensing enabled, a byte unread and
\* ack different from PMT_ACK, and in every such step exactly one byte is
\* consumed and stored in ack; with ack equal to PMT_ACK no byte is
\* consumed.
C15_ConsumeRuleAmended ==
  [][/\ ConsumesByte =>
          /\ pc = "tx" /\ tx_state \in AckWaitStates /\ SensingEnabled
          /\ e_ischar_uart1 /\ ack # PMT_ACK
          /\ uart_rx' = Tail(uart_rx)
          /\ ack' = Head(uart_rx)
     /\ (pc = "tx" /\ pc' = "cam" /\ tx_state \in AckWaitStates
           /\ SensingEnabled /\ e_ischar_uart1 /\ ack # PMT_ACK)
          => ConsumesByte
     /\ (pc = "tx" /\ pc' = "cam" /\ ack = PMT_ACK)
          => uart_rx' = uart_rx]_vars

\* a byte that is neither 0 nor PMT_ACK was read into ack and the next
\* byte is waiting to be read over it
C15_Witness ==
  /\ pc = "tx" /\ tx_state \in AckWaitStates /\ SensingEnabled
  /\ tx_act = "read" /\ ack \notin {0, PMT_ACK}
  /\ e_ischar_uart1

----------------------------------------------------------------------------
\* a PMT_VISUAL header is sent directly after the data of buffer 0, with
\* buffer 1 new at the scan
ScanAfterZero ==
  /\ TxSendsHeader(PMT_VISUAL)
  /\ last_sent = Sent("payload", PMT_VISUAL, 0)
  /\ IsNew(1)

====
